---------------------------- MODULE Spec2Model ----------------------------
(***************************************************************************)
(* doom::dagger (include/dagger.hpp): incremental construction of a        *)
(* minimal acyclic word graph from a dictionary, after Daciuk et al.       *)
(*                                                                         *)
(* Vertices live in a heap indexed by address.  An address is owned by     *)
(* exactly one of root_vertex_, an entry of unminimized_path_ or an        *)
(* element of minimized_vertices_ (all three hold std::unique_ptr); a      *)
(* vertex whose owner goes out of scope leaves the heap.  Transition       *)
(* tables hold raw addresses.                                              *)
(*                                                                         *)
(* A word is a sequence of byte values.  The alphabet is the two bytes     *)
(* 'a' and 'b'.                                                            *)
(***************************************************************************)
EXTENDS FiniteSets, Integers, Sequences, TLC

\* Longest word handed to insert.
MaxLen == 2
\* Most words handed to insert when the input is in arbitrary order.
MaxInserts == 3
\* Most words of a strictly ascending dictionary.
MaxDictionary == 4

Chars == {97, 98}

\* Every word of at most n bytes.
WordsUpTo(n) == UNION {[1..k -> Chars] : k \in 0..n}

Words == WordsUpTo(MaxLen)

\* The strings contains is asked about: one byte longer than any word.
Candidates == WordsUpTo(MaxLen + 1)

\* Enough addresses for the root and one vertex per inserted byte.
Addrs == 1..(1 + MaxDictionary * MaxLen)

VARIABLES
    heap,                \* address -> vertex, for the vertices alive
    root_vertex_,        \* address of the root
    unminimized_path_,   \* stack of unminimized_vertex, top last
    minimized_vertices_, \* addresses owned by the registry
    prev_word_,          \* the word of the last completed insert
    pc,                  \* where construction stands
    word,                \* argument of the insert in progress
    until,               \* argument of the minimize_until in progress
    suffix,              \* bytes add_suffix has yet to consume
    ret,                 \* where the minimize_until in progress returns to
    words,               \* the words handed to insert so far, in order
    answer               \* results of the last contains call: none or one

vars == <<heap, root_vertex_, unminimized_path_, minimized_vertices_,
          prev_word_, pc, word, until, suffix, ret, words, answer>>

\* What the dagger object owns.
graph == <<heap, root_vertex_, unminimized_path_, minimized_vertices_, prev_word_>>

-----------------------------------------------------------------------------
(* details::vertex *)

\* Mutant: is_accepting_ initialised to true.
vertex_accepting == [edges_ |-> <<>>, is_accepting_ |-> TRUE]

\* A default-constructed vertex: no edges, not accepting.
vertex == [edges_ |-> <<>>, is_accepting_ |-> FALSE]

\* std::make_unique<vertex>(): the allocator hands out an address that is not
\* in use, reusing freed ones (lowest first).
make_unique(h) == CHOOSE a \in Addrs \ DOMAIN h : \A b \in Addrs \ DOMAIN h : a <= b

\* v->edges()[c] = target
set_edge(h, v, c, target) ==
    [h EXCEPT ![v].edges_ =
        [k \in DOMAIN h[v].edges_ \cup {c} |-> IF k = c THEN target ELSE h[v].edges_[k]]]

\* v->mark_word_end()
mark_word_end(h, v) == [h EXCEPT ![v].is_accepting_ = TRUE]

\* The unique_ptr owning v is destroyed.
destroy(h, v) == [a \in DOMAIN h \ {v} |-> h[a]]

\* The (label, target) pairs of a std::map<char, vertex *>, in key order.
RECURSIVE map_pairs(_)
map_pairs(e) ==
    IF DOMAIN e = {} THEN <<>>
    ELSE LET k == CHOOSE x \in DOMAIN e : \A y \in DOMAIN e : x <= y
         IN  <<(<<k, e[k]>>)>> \o map_pairs([x \in DOMAIN e \ {k} |-> e[x]])

\* operator< of std::pair<const char, vertex *>
pair_less(p, q) == p[1] < q[1] \/ (~(q[1] < p[1]) /\ p[2] < q[2])

\* std::lexicographical_compare, which is operator< of std::map
RECURSIVE lexicographical_compare(_, _)
lexicographical_compare(s, t) ==
    IF t = <<>> THEN FALSE
    ELSE IF s = <<>> THEN TRUE
    ELSE IF pair_less(Head(s), Head(t)) THEN TRUE
    ELSE IF pair_less(Head(t), Head(s)) THEN FALSE
    ELSE lexicographical_compare(Tail(s), Tail(t))

\* Mutant: operator< leaves the accepting flags out of the comparison.
vertex_less_ignoring_flag(h, lhs, rhs) ==
    IF lhs = rhs THEN FALSE
    ELSE lexicographical_compare(map_pairs(h[lhs].edges_), map_pairs(h[rhs].edges_))

\* Mutant: operator< compares the addresses of the two vertices.
vertex_less_by_address(h, lhs, rhs) == lhs < rhs

\* operator<(const vertex &lhs, const vertex &rhs), on the addresses of both
vertex_less(h, lhs, rhs) ==
    IF lhs = rhs THEN FALSE
    ELSE IF h[lhs].is_accepting_ # h[rhs].is_accepting_ THEN h[lhs].is_accepting_ = FALSE
    ELSE lexicographical_compare(map_pairs(h[lhs].edges_), map_pairs(h[rhs].edges_))

\* Mutant: the registry is searched for the pointer, not for the vertex.
registry_find_by_address(h, registry, v) == {it \in registry : it = v}

\* minimized_vertices_.find(v): the elements neither less nor greater than v
\* under dereferencing_less; empty when find returns end().
registry_find(h, registry, v) ==
    {it \in registry : ~vertex_less(h, it, v) /\ ~vertex_less(h, v, it)}

-----------------------------------------------------------------------------
(* dagger *)

\* Mutant: the scan stops one byte before the end of the new word.
RECURSIVE mismatch_stops_early(_, _, _)
mismatch_stops_early(prev, w, i) ==
    IF i > Len(prev) \/ i >= Len(w) \/ prev[i] # w[i] THEN i
    ELSE mismatch_stops_early(prev, w, i + 1)

\* std::mismatch(prev.begin(), prev.end(), w.begin(), w.end()), as the index
\* of the first position (from 1) at which the two differ or one ends.
RECURSIVE mismatch(_, _, _)
mismatch(prev, w, i) ==
    IF i > Len(prev) \/ i > Len(w) \/ prev[i] # w[i] THEN i
    ELSE mismatch(prev, w, i + 1)

common_prefix_len(prev, w) == mismatch(prev, w, 1) - 1

\* Mutant: the parent is never advanced from the root.
parent_of_root(path) == root_vertex_

\* The parent add_suffix and minimize_until write to: the vertex on top of
\* a path, or the root when that path is empty.
parent_of(path) ==
    IF path = <<>> THEN root_vertex_ ELSE path[Len(path)].vertex_

parent_vertex == parent_of(unminimized_path_)

\* Mutant: the walk ends with true whatever the vertex it ends on.
RECURSIVE contains_from_ignoring_word_end(_, _, _)
contains_from_ignoring_word_end(h, current_vertex, w) ==
    IF w = <<>> THEN [heap |-> h, result |-> TRUE]
    ELSE IF Head(w) \notin DOMAIN h[current_vertex].edges_
         THEN [heap |-> h, result |-> FALSE]
         ELSE contains_from_ignoring_word_end(h, h[current_vertex].edges_[Head(w)], Tail(w))

\* Mutant: the lookup is edges()[c], which adds a null entry for a missing
\* label (0 stands for nullptr).
RECURSIVE contains_from_subscript(_, _, _)
contains_from_subscript(h, current_vertex, w) ==
    IF w = <<>> THEN [heap |-> h, result |-> h[current_vertex].is_accepting_]
    ELSE IF Head(w) \notin DOMAIN h[current_vertex].edges_
         THEN [heap |-> set_edge(h, current_vertex, Head(w), 0), result |-> FALSE]
         ELSE contains_from_subscript(h, h[current_vertex].edges_[Head(w)], Tail(w))

\* contains(word), from current_vertex on; returns the heap as the call
\* leaves it together with the result.
RECURSIVE contains_from(_, _, _)
contains_from(h, current_vertex, w) ==
    IF w = <<>> THEN [heap |-> h, result |-> h[current_vertex].is_accepting_]
    ELSE IF Head(w) \notin DOMAIN h[current_vertex].edges_
         THEN [heap |-> h, result |-> FALSE]
         ELSE contains_from(h, h[current_vertex].edges_[Head(w)], Tail(w))

contains(w) == contains_from(heap, root_vertex_, w).result

Init ==
    /\ root_vertex_ = make_unique(<<>>)
    /\ heap = [a \in {root_vertex_} |-> vertex]
    /\ unminimized_path_ = <<>>
    /\ minimized_vertices_ = {}
    /\ prev_word_ = <<>>
    /\ pc = "from_dictionary"
    /\ word = <<>>
    /\ until = 0
    /\ suffix = <<>>
    /\ ret = "add_suffix"
    /\ words = <<>>
    /\ answer = <<>>

\* Byte-wise lexicographic order on words.
RECURSIVE word_less(_, _)
word_less(u, v) ==
    IF v = <<>> THEN FALSE
    ELSE IF u = <<>> THEN TRUE
    ELSE IF Head(u) # Head(v) THEN Head(u) < Head(v)
    ELSE word_less(Tail(u), Tail(v))

StrictlyAscending(ws) == \A i \in 1..(Len(ws) - 1) : word_less(ws[i], ws[i + 1])

\* Mutant: insert refuses a word that does not follow the previous one.
insert_validating(w) ==
    LET len == common_prefix_len(prev_word_, w)
    IN  /\ words # <<>> => word_less(prev_word_, w)
        /\ word' = w
        /\ until' = len
        /\ suffix' = SubSeq(w, len + 1, Len(w))
        /\ ret' = "add_suffix"
        /\ pc' = IF Len(unminimized_path_) > len THEN "minimize_until" ELSE "add_suffix"
        /\ words' = Append(words, w)
        /\ UNCHANGED <<graph, answer>>

\* insert(w) up to its call of minimize_until
insert(w) ==
    LET len == common_prefix_len(prev_word_, w)
    IN  /\ word' = w
        /\ until' = len
        /\ suffix' = SubSeq(w, len + 1, Len(w))
        /\ ret' = "add_suffix"
        /\ pc' = IF Len(unminimized_path_) > len THEN "minimize_until" ELSE "add_suffix"
        /\ words' = Append(words, w)
        /\ UNCHANGED <<graph, answer>>

\* from_dictionary takes the next word of a range in any order.
Insert(w) ==
    /\ pc = "from_dictionary"
    /\ Len(words) < MaxInserts
    /\ insert(w)

\* from_dictionary takes the next word of a strictly ascending range.
InsertAscending(w) ==
    /\ pc = "from_dictionary"
    /\ Len(words) < MaxDictionary
    /\ words # <<>> => word_less(words[Len(words)], w)
    /\ insert(w)

\* Mutant: the popped vertex is dropped without the parent being redirected.
MinimizeFound_without_redirect ==
    /\ pc = "minimize_until"
    /\ Len(unminimized_path_) > until
    /\ LET top == unminimized_path_[Len(unminimized_path_)]
           rest == SubSeq(unminimized_path_, 1, Len(unminimized_path_) - 1)
       IN  /\ registry_find(heap, minimized_vertices_, top.vertex_) # {}
           /\ heap' = destroy(heap, top.vertex_)
           /\ unminimized_path_' = rest
           /\ pc' = IF Len(rest) > until THEN "minimize_until" ELSE ret
    /\ UNCHANGED <<root_vertex_, minimized_vertices_, prev_word_, word, until, suffix,
                   ret, words, answer>>

\* One iteration of minimize_until's loop, the popped vertex found in the
\* registry: the parent is redirected, the popped vertex dropped.
MinimizeFound ==
    /\ pc = "minimize_until"
    /\ Len(unminimized_path_) > until
    /\ LET top == unminimized_path_[Len(unminimized_path_)]
           rest == SubSeq(unminimized_path_, 1, Len(unminimized_path_) - 1)
       IN  /\ \E it \in registry_find(heap, minimized_vertices_, top.vertex_) :
                heap' = destroy(set_edge(heap, parent_of(rest), top.edge_from_parent_, it),
                                top.vertex_)
           /\ unminimized_path_' = rest
           /\ pc' = IF Len(rest) > until THEN "minimize_until" ELSE ret
    /\ UNCHANGED <<root_vertex_, minimized_vertices_, prev_word_, word, until, suffix,
                   ret, words, answer>>

\* Mutant: the popped vertex is released, neither destroyed nor moved into
\* the registry.
MinimizeAbsorb_leaking ==
    /\ pc = "minimize_until"
    /\ Len(unminimized_path_) > until
    /\ LET top == unminimized_path_[Len(unminimized_path_)]
           rest == SubSeq(unminimized_path_, 1, Len(unminimized_path_) - 1)
       IN  /\ registry_find(heap, minimized_vertices_, top.vertex_) = {}
           /\ unminimized_path_' = rest
           /\ pc' = IF Len(rest) > until THEN "minimize_until" ELSE ret
    /\ UNCHANGED <<heap, minimized_vertices_, root_vertex_, prev_word_, word, until, suffix,
                   ret, words, answer>>

\* One iteration of minimize_until's loop, no identical vertex in the
\* registry: the popped vertex moves into it.
MinimizeAbsorb ==
    /\ pc = "minimize_until"
    /\ Len(unminimized_path_) > until
    /\ LET top == unminimized_path_[Len(unminimized_path_)]
           rest == SubSeq(unminimized_path_, 1, Len(unminimized_path_) - 1)
       IN  /\ registry_find(heap, minimized_vertices_, top.vertex_) = {}
           /\ minimized_vertices_' = minimized_vertices_ \cup {top.vertex_}
           /\ unminimized_path_' = rest
           /\ pc' = IF Len(rest) > until THEN "minimize_until" ELSE ret
    /\ UNCHANGED <<heap, root_vertex_, prev_word_, word, until, suffix, ret, words,
                   answer>>

\* Mutant: add_suffix follows an edge the parent already has for the byte
\* instead of creating a vertex, as a trie insertion would.
AddSuffixChar_reusing_edge ==
    /\ pc = "add_suffix"
    /\ suffix # <<>>
    /\ LET c == Head(suffix)
           known == c \in DOMAIN heap[parent_vertex].edges_
           new_vertex == IF known THEN heap[parent_vertex].edges_[c] ELSE make_unique(heap)
       IN  /\ heap' = IF known THEN heap
                      ELSE set_edge([a \in DOMAIN heap \cup {new_vertex} |->
                                        IF a = new_vertex THEN vertex ELSE heap[a]],
                                    parent_vertex, c, new_vertex)
           /\ unminimized_path_' = Append(unminimized_path_,
                                          [vertex_ |-> new_vertex, edge_from_parent_ |-> c])
    /\ suffix' = Tail(suffix)
    /\ UNCHANGED <<root_vertex_, minimized_vertices_, prev_word_, pc, word, until, ret,
                   words, answer>>

\* Mutant: add_suffix points the new edge back at the parent instead of at a
\* fresh vertex.
AddSuffixChar_linking_parent ==
    /\ pc = "add_suffix"
    /\ suffix # <<>>
    /\ LET c == Head(suffix)
       IN  /\ heap' = set_edge(heap, parent_vertex, c, parent_vertex)
           /\ unminimized_path_' = Append(unminimized_path_,
                                          [vertex_ |-> parent_vertex, edge_from_parent_ |-> c])
    /\ suffix' = Tail(suffix)
    /\ UNCHANGED <<root_vertex_, minimized_vertices_, prev_word_, pc, word, until, ret,
                   words, answer>>

\* Mutant: mark_word_end is called on every vertex the loop creates.
AddSuffixChar_marking_each ==
    /\ pc = "add_suffix"
    /\ suffix # <<>>
    /\ LET c == Head(suffix)
           new_vertex == make_unique(heap)
       IN  /\ heap' = mark_word_end(set_edge([a \in DOMAIN heap \cup {new_vertex} |->
                                                 IF a = new_vertex THEN vertex ELSE heap[a]],
                                             parent_vertex, c, new_vertex),
                                    new_vertex)
           /\ unminimized_path_' = Append(unminimized_path_,
                                          [vertex_ |-> new_vertex, edge_from_parent_ |-> c])
    /\ suffix' = Tail(suffix)
    /\ UNCHANGED <<root_vertex_, minimized_vertices_, prev_word_, pc, word, until, ret,
                   words, answer>>

\* One iteration of add_suffix's loop.
AddSuffixChar ==
    /\ pc = "add_suffix"
    /\ suffix # <<>>
    /\ LET c == Head(suffix)
           new_vertex == make_unique(heap)
       IN  /\ heap' = set_edge([a \in DOMAIN heap \cup {new_vertex} |->
                                    IF a = new_vertex THEN vertex ELSE heap[a]],
                               parent_vertex, c, new_vertex)
           /\ unminimized_path_' = Append(unminimized_path_,
                                          [vertex_ |-> new_vertex, edge_from_parent_ |-> c])
    /\ suffix' = Tail(suffix)
    /\ UNCHANGED <<root_vertex_, minimized_vertices_, prev_word_, pc, word, until, ret,
                   words, answer>>

\* Mutant: insert returns without saving the word in prev_word_.
AddSuffixEnd_without_save ==
    /\ pc = "add_suffix"
    /\ suffix = <<>>
    /\ heap' = mark_word_end(heap, parent_vertex)
    /\ pc' = "from_dictionary"
    /\ UNCHANGED <<root_vertex_, unminimized_path_, minimized_vertices_, prev_word_, word,
                   until, suffix, ret, words, answer>>

\* add_suffix after its loop, and the rest of insert.
AddSuffixEnd ==
    /\ pc = "add_suffix"
    /\ suffix = <<>>
    /\ heap' = mark_word_end(heap, parent_vertex)
    /\ prev_word_' = word
    /\ pc' = "from_dictionary"
    /\ UNCHANGED <<root_vertex_, unminimized_path_, minimized_vertices_, word, until,
                   suffix, ret, words, answer>>

\* Mutant: from_dictionary returns without calling finish_minimization.
FinishMinimization_skipped ==
    /\ pc = "from_dictionary"
    /\ until' = 0
    /\ ret' = "done"
    /\ pc' = "done"
    /\ UNCHANGED <<graph, word, suffix, words, answer>>

\* from_dictionary reaches the end of the range: finish_minimization.
FinishMinimization ==
    /\ pc = "from_dictionary"
    /\ until' = 0
    /\ ret' = "done"
    /\ pc' = IF Len(unminimized_path_) > 0 THEN "minimize_until" ELSE "done"
    /\ UNCHANGED <<graph, word, suffix, words, answer>>

\* A call of contains on the automaton from_dictionary returned.
Contains(w) ==
    /\ pc = "done"
    /\ LET call == contains_from(heap, root_vertex_, w)
       IN  /\ heap' = call.heap
           /\ answer' = <<call.result>>
    /\ UNCHANGED <<root_vertex_, unminimized_path_, minimized_vertices_, prev_word_, pc,
                   word, until, suffix, ret, words>>

Next ==
    \/ \E w \in Words : Insert(w)
    \/ MinimizeFound
    \/ MinimizeAbsorb
    \/ AddSuffixChar
    \/ AddSuffixEnd
    \/ FinishMinimization
    \/ \E w \in Candidates : Contains(w)

Spec == Init /\ [][Next]_vars

NextSorted ==
    \/ \E w \in Words : InsertAscending(w)
    \/ MinimizeFound
    \/ MinimizeAbsorb
    \/ AddSuffixChar
    \/ AddSuffixEnd
    \/ FinishMinimization
    \/ \E w \in Candidates : Contains(w)

SpecSorted == Init /\ [][NextSorted]_vars

-----------------------------------------------------------------------------
(* Vocabulary of the properties *)

\* The set of words handed to insert.
Dictionary == {words[i] : i \in 1..Len(words)}

IsPrefix(u, w) == Len(u) <= Len(w) /\ SubSeq(w, 1, Len(u)) = u

Prefixes(L) == UNION {{SubSeq(w, 1, k) : k \in 0..Len(w)} : w \in L}

\* The residual (right language) of L after u.
Residual(L, u) == {SubSeq(w, Len(u) + 1, Len(w)) : w \in {x \in L : IsPrefix(u, x)}}

\* The states of the minimal DFA of a finite language L, dead state left
\* out: the residuals of L after the prefixes of its words.  The initial
\* state is the residual L itself; no other prefix has it, L being finite.
MinimalDfaStates(L) == {Residual(L, u) : u \in Prefixes(L)}

Targets(v) == {heap[v].edges_[c] : c \in DOMAIN heap[v].edges_}

\* The vertices a walk from the vertices of S can visit.
RECURSIVE ReachableFrom(_)
ReachableFrom(S) ==
    LET T == S \cup UNION {Targets(v) : v \in S}
    IN  IF T = S THEN S ELSE ReachableFrom(T)

Reachable == ReachableFrom({root_vertex_})

\* The strings a walk from v accepts.
RECURSIVE RightLanguage(_)
RightLanguage(v) ==
    (IF heap[v].is_accepting_ THEN {<<>>} ELSE {})
    \cup UNION {{<<c>> \o s : s \in RightLanguage(heap[v].edges_[c])} :
                c \in DOMAIN heap[v].edges_}

\* The vertices some unique_ptr owns.
PathVertices == {unminimized_path_[i].vertex_ : i \in 1..Len(unminimized_path_)}

Owned == {root_vertex_} \cup PathVertices \cup minimized_vertices_

-----------------------------------------------------------------------------
(* Properties *)

\* C1: after from_dictionary on a strictly ascending sequence, contains(w)
\* is true for every word w of the sequence.
C1_Membership ==
    pc = "done" => \A w \in Dictionary : contains(w)

C1_Witness ==
    /\ pc = "done"
    /\ Len(words) >= 3
    /\ \A w \in Dictionary : contains(w)
    /\ \E v \in minimized_vertices_ : heap[v].is_accepting_ /\ heap[v].edges_ # <<>>

\* C2: after from_dictionary on a strictly ascending sequence, contains(s)
\* is false for every string s that is not a word of the sequence, a proper
\* prefix of an inserted word included.
C2_NoFalsePositive ==
    pc = "done" => \A s \in Candidates : contains(s) => s \in Dictionary

C2_Witness ==
    /\ pc = "done"
    /\ \E w \in Dictionary : \E k \in 0..(Len(w) - 1) :
          /\ SubSeq(w, 1, k) \notin Dictionary
          /\ ~contains(SubSeq(w, 1, k))
    /\ \E w \in Dictionary : \E c \in Chars : ~contains(Append(w, c))

\* C3 as stated: after from_dictionary on a strictly ascending sequence, the
\* registry holds as many vertices as the minimal DFA of the dictionary has
\* states.
C3_RegistryIsMinimalDfa ==
    pc = "done" => Cardinality(minimized_vertices_) = Cardinality(MinimalDfaStates(Dictionary))

\* C3 amended: after from_dictionary on a strictly ascending sequence, the
\* registry holds as many vertices as the minimal DFA of the dictionary has
\* states other than its initial state; the initial state is the root, which
\* is never stored in the registry.
C3_RegistryIsMinimalDfaButRoot ==
    pc = "done" =>
        /\ root_vertex_ \notin minimized_vertices_
        /\ Cardinality(minimized_vertices_)
             = Cardinality(MinimalDfaStates(Dictionary) \ {Dictionary})

C3_Witness ==
    /\ pc = "done"
    /\ Len(words) >= 3
    /\ Cardinality(minimized_vertices_) + 1 = Cardinality(MinimalDfaStates(Dictionary))
    /\ Cardinality(minimized_vertices_) + 1 < Cardinality(Prefixes(Dictionary))

\* C4: after from_dictionary on a strictly ascending sequence, no two
\* distinct vertices reachable from the root, the root included, accept the
\* same set of suffixes.
C4_DistinctRightLanguages ==
    pc = "done" =>
        \A u \in Reachable : \A v \in Reachable :
            u # v => RightLanguage(u) # RightLanguage(v)

C4_Witness ==
    /\ pc = "done"
    /\ \E u \in Reachable : \E v \in Reachable :
          /\ u # v
          /\ Targets(u) \cap Targets(v) # {}
          /\ RightLanguage(u) # RightLanguage(v)

\* C5: the root is accepting only if the empty string was inserted, and
\* after a build contains("") is true exactly when the empty string is one of
\* the input words; for the dictionary {"a"}, contains("a") is true,
\* contains("") and contains("aa") are false.
C5_RootAcceptsOnlyEmptyWord ==
    /\ heap[root_vertex_].is_accepting_ => <<>> \in Dictionary
    /\ pc = "done" => (contains(<<>>) <=> <<>> \in Dictionary)
    /\ (pc = "done" /\ words = <<(<<97>>)>>) =>
          contains(<<97>>) /\ ~contains(<<>>) /\ ~contains(<<97, 97>>)

C5_Witness ==
    /\ pc = "done"
    /\ Len(words) >= 2
    /\ words[1] # <<>>
    /\ <<>> \in Dictionary
    /\ contains(<<>>)

\* C6: from_dictionary on an empty sequence returns an automaton that
\* accepts nothing and holds only the root: no edge, an empty unminimized
\* path, an empty registry.
C6_EmptyInput ==
    (pc = "done" /\ words = <<>>) =>
        /\ \A s \in Candidates : ~contains(s)
        /\ DOMAIN heap = {root_vertex_}
        /\ heap[root_vertex_].edges_ = <<>>
        /\ unminimized_path_ = <<>>
        /\ minimized_vertices_ = {}

C6_Witness ==
    /\ pc = "done"
    /\ words = <<>>
    /\ answer = <<FALSE>>

\* An insert of the word the previous insert was given is in progress.
InDuplicateInsert ==
    /\ pc \in {"minimize_until", "add_suffix"}
    /\ ret = "add_suffix"
    /\ Len(words) >= 2
    /\ words[Len(words)] = words[Len(words) - 1]

\* C7: inserting the same word twice in a row is idempotent: the second
\* insert pops nothing, creates nothing and returns with every vertex, the
\* path, the registry and prev_word_ as the first insert left them, so the
\* build goes on exactly as if the word had been given once.
C7_DuplicateInsertIdempotent ==
    [][InDuplicateInsert => (graph' = graph /\ pc' = "from_dictionary")]_vars

C7_Witness ==
    /\ pc = "done"
    /\ Len(words) = 3
    /\ words[1] = words[2]
    /\ Len(words[1]) = 2
    /\ word_less(words[2], words[3])

\* C8: a call of contains leaves the root, every vertex's transition table
\* and accepting flag, the registry, the unminimized path and prev_word_
\* unchanged; the answer to a query being read off these alone, queries
\* answer the same in any number and order.
C8_ContainsReadOnly ==
    [][pc = "done" => graph' = graph]_vars

C8_Witness ==
    /\ pc = "done"
    /\ answer = <<TRUE>>
    /\ minimized_vertices_ # {}

\* Steps insert and finish_minimization have yet to take.
StepsLeft ==
    CASE pc = "minimize_until" ->
           (Len(unminimized_path_) - until) + (IF ret = "add_suffix" THEN Len(suffix) + 1 ELSE 0)
      [] pc = "add_suffix" -> Len(suffix) + 1
      [] OTHER -> 0

\* No transition table holds the address of a vertex that is not alive.
NoDanglingEdge ==
    /\ DOMAIN heap = Owned
    /\ \A v \in DOMAIN heap : Targets(v) \subseteq PathVertices \cup minimized_vertices_

\* C9: for any input sequence, ascending or not, every transition target of
\* the root, of a path vertex and of a registry vertex is a vertex alive on
\* the path or in the registry, and every step of an insert or of the final
\* flush brings it one step closer to its return.
C9_MemorySafe ==
    /\ []NoDanglingEdge
    /\ [][(pc \in {"minimize_until", "add_suffix"}) => (StepsLeft' = StepsLeft - 1)]_vars

C9_Witness ==
    /\ pc = "done"
    /\ ~StrictlyAscending(words)
    /\ \E u \in DOMAIN heap : \E v \in DOMAIN heap : u # v /\ Targets(u) \cap Targets(v) # {}
    /\ minimized_vertices_ \ Reachable # {}

\* C10: insert takes any word whatever the previous one was, and input that
\* is not ascending can lose words: after "ab", "b", "aa" the automaton
\* accepts "b" and "aa" but not "ab".
C10_OrderNotValidated ==
    /\ (pc = "from_dictionary" /\ Len(words) < MaxInserts) =>
          \A w \in Words : ENABLED Insert(w)
    /\ (pc = "done" /\ words = <<(<<97, 98>>), (<<98>>), (<<97, 97>>)>>) =>
          ~contains(<<97, 98>>) /\ contains(<<98>>) /\ contains(<<97, 97>>)

C10_Witness ==
    /\ pc = "done"
    /\ ~StrictlyAscending(words)
    /\ \E w \in Dictionary : ~contains(w)


\* C11: after from_dictionary returns, for any input sequence, the
\* unminimized path is empty and every vertex reachable from the root other
\* than the root is stored in the registry.
C11_AllCanonicalAfterBuild ==
    pc = "done" =>
        /\ unminimized_path_ = <<>>
        /\ Reachable \ {root_vertex_} \subseteq minimized_vertices_

C11_Witness ==
    /\ pc = "done"
    /\ ~StrictlyAscending(words)
    /\ prev_word_ # <<>>
    /\ unminimized_path_ = <<>>
    /\ Cardinality(Reachable) >= 3

\* C12: whenever minimize_until pops a vertex and looks it up in the
\* registry, every transition target of that vertex is in the registry; below
\* the top, a path vertex has at most its successor on the path as a target
\* outside the registry.
C12_TargetsCanonicalAtLookup ==
    /\ pc = "minimize_until" =>
          Targets(unminimized_path_[Len(unminimized_path_)].vertex_) \subseteq minimized_vertices_
    /\ \A i \in 1..(Len(unminimized_path_) - 1) :
          Targets(unminimized_path_[i].vertex_)
             \subseteq minimized_vertices_ \cup {unminimized_path_[i + 1].vertex_}

C12_Witness ==
    /\ pc = "minimize_until"
    /\ Targets(unminimized_path_[Len(unminimized_path_)].vertex_) # {}
    /\ \E it \in minimized_vertices_ :
          heap[it] = heap[unminimized_path_[Len(unminimized_path_)].vertex_]


\* C13: a vertex in the registry is never removed from it and never
\* written: over every step it stays in the registry with its accepting flag
\* and transition table as they were; a vertex a step writes is the root or
\* is on the unminimized path.
C13_RegistryImmutable ==
    [][/\ \A v \in minimized_vertices_ :
             /\ v \in minimized_vertices_'
             /\ v \in DOMAIN heap'
             /\ heap'[v] = heap[v]
       /\ \A v \in DOMAIN heap \cap DOMAIN heap' :
             heap'[v] # heap[v] => v \in {root_vertex_} \cup PathVertices]_vars

C13_Witness ==
    /\ pc = "add_suffix"
    /\ suffix = <<>>
    /\ Len(words) = 3
    /\ Cardinality(minimized_vertices_) >= 3
    /\ \E v \in minimized_vertices_ : v \notin Reachable

\* C14: in every state of construction, every vertex reachable from the root
\* that is neither the root nor on the unminimized path is stored in the
\* registry.
C14_OffPathIsCanonical ==
    Reachable \ ({root_vertex_} \cup PathVertices) \subseteq minimized_vertices_

C14_Witness ==
    /\ pc = "add_suffix"
    /\ unminimized_path_ # <<>>
    /\ Reachable \cap minimized_vertices_ # {}
    /\ Reachable \cap PathVertices # {}


\* The registry vertices equivalent to v: same accepting flag, same
\* (label, target) pairs, targets compared by identity.
EquivalentInRegistry(v) == {x \in minimized_vertices_ : heap[x] = heap[v]}

\* The registry holds no two equivalent vertices.
NoTwoEquivalent ==
    \A x \in minimized_vertices_ : EquivalentInRegistry(x) = {x}

\* What a pop of minimize_until does to the popped entry (v, label) and to
\* its parent, the new top of the path or the root.
PopResolves ==
    LET top == unminimized_path_[Len(unminimized_path_)]
        v == top.vertex_
        label == top.edge_from_parent_
        parent == parent_of(SubSeq(unminimized_path_, 1, Len(unminimized_path_) - 1))
    IN  IF EquivalentInRegistry(v) # {}
        THEN /\ heap'[parent].edges_[label] \in EquivalentInRegistry(v)
             /\ v \notin DOMAIN heap'
             /\ \A u \in DOMAIN heap' : \A c \in DOMAIN heap'[u].edges_ : heap'[u].edges_[c] # v
             /\ minimized_vertices_' = minimized_vertices_
        ELSE /\ minimized_vertices_' = minimized_vertices_ \cup {v}
             /\ heap' = heap
             /\ heap[parent].edges_[label] = v

\* C15: for each entry (v, label) minimize_until pops: if the registry holds
\* a vertex equivalent to v, the parent's transition for label is redirected
\* to it, v is destroyed with no edge left to it, and the registry is
\* unchanged; otherwise v is added to the registry and the parent still
\* leads to v.  The registry never holds two equivalent vertices.
C15_ReplaceOrRegister ==
    /\ []NoTwoEquivalent
    /\ [][(pc = "minimize_until") => PopResolves]_vars

C15_Witness ==
    /\ pc = "from_dictionary"
    /\ unminimized_path_ # <<>>
    /\ \E x \in minimized_vertices_ : \E u \in PathVertices : \E w \in minimized_vertices_ :
          /\ x \in Targets(u)
          /\ x \in Targets(w)


\* What a step of add_suffix does: for the next byte of the tail, one new
\* vertex, without edges and not accepting, reached from the parent by that
\* byte and pushed on the path; the tail consumed, the parent marked
\* accepting and nothing created.  Nothing else is written.
AddSuffixStep ==
    LET p == parent_vertex
    IN  /\ \A u \in DOMAIN heap \ {p} : u \in DOMAIN heap' /\ heap'[u] = heap[u]
        /\ IF suffix # <<>>
           THEN /\ Cardinality(DOMAIN heap' \ DOMAIN heap) = 1
                /\ \E n \in DOMAIN heap' \ DOMAIN heap :
                      /\ heap'[n] = [edges_ |-> <<>>, is_accepting_ |-> FALSE]
                      /\ heap'[p].edges_[Head(suffix)] = n
                      /\ unminimized_path_' =
                            Append(unminimized_path_,
                                   [vertex_ |-> n, edge_from_parent_ |-> Head(suffix)])
                /\ DOMAIN heap'[p].edges_ = DOMAIN heap[p].edges_ \cup {Head(suffix)}
                /\ \A k \in DOMAIN heap[p].edges_ \ {Head(suffix)} :
                      heap'[p].edges_[k] = heap[p].edges_[k]
                /\ heap'[p].is_accepting_ = heap[p].is_accepting_
                /\ suffix' = Tail(suffix)
                /\ pc' = "add_suffix"
           ELSE /\ DOMAIN heap' = DOMAIN heap
                /\ unminimized_path_' = unminimized_path_
                /\ heap'[p].is_accepting_
                /\ heap'[p].edges_ = heap[p].edges_
                /\ pc' = "from_dictionary"

\* While add_suffix runs, the path holds one vertex per byte of the word
\* consumed so far.
OneVertexPerByte ==
    pc = "add_suffix" =>
        /\ Len(unminimized_path_) = Len(word) - Len(suffix)
        /\ suffix = SubSeq(word, Len(unminimized_path_) + 1, Len(word))
        /\ until <= Len(unminimized_path_)

\* C16: add_suffix(tail) creates exactly one new vertex per byte of tail,
\* each reached from its parent (the top of the path, or the root when the
\* path is empty) by that byte and pushed on the path, and marks the last one
\* accepting; with an empty tail it creates nothing and marks the top of the
\* path, or the root when the path is empty.
C16_AddSuffix ==
    /\ []OneVertexPerByte
    /\ [][(pc = "add_suffix") => AddSuffixStep]_vars

C16_Witness ==
    /\ pc = "from_dictionary"
    /\ prev_word_ = word
    /\ until >= 1
    /\ until < Len(word)
    /\ Len(unminimized_path_) = Len(word)
    /\ heap[parent_vertex].is_accepting_
    /\ ~heap[unminimized_path_[until].vertex_].is_accepting_


\* C17 as stated: the accepting flag of a vertex is set before the vertex is
\* pushed on the unminimized path: once a vertex has been pushed its flag
\* never changes, and once it has left the path nothing of it changes.
C17_FlagSetBeforePush ==
    [][\A v \in (DOMAIN heap \cap DOMAIN heap') \ {root_vertex_} :
          /\ heap'[v].is_accepting_ = heap[v].is_accepting_
          /\ v \notin PathVertices => heap'[v] = heap[v]]_vars

\* C17 amended: the accepting flag of a vertex is set after the vertex has
\* been pushed, while it is the top of the unminimized path: the only step
\* that changes a flag is the end of add_suffix, which sets the flag of the
\* top of the path, or of the root when the path is empty; once a vertex has
\* left the path nothing of it changes.
C17_FlagSetOnPathTop ==
    [][\A v \in DOMAIN heap \cap DOMAIN heap' :
          /\ heap'[v].is_accepting_ # heap[v].is_accepting_ =>
                /\ pc = "add_suffix"
                /\ suffix = <<>>
                /\ v = IF unminimized_path_ = <<>> THEN root_vertex_
                       ELSE unminimized_path_[Len(unminimized_path_)].vertex_
                /\ heap'[v].is_accepting_
          /\ v \notin PathVertices \cup {root_vertex_} => heap'[v] = heap[v]]_vars

C17_Witness ==
    /\ pc = "from_dictionary"
    /\ Len(words) = 2
    /\ Len(words[1]) = 2
    /\ words[2] = SubSeq(words[1], 1, 1)
    /\ prev_word_ = words[2]
    /\ heap[unminimized_path_[1].vertex_].is_accepting_


\* The path spells a prefix of w: its i-th entry carries the i-th byte of w
\* and is the vertex that byte leads to from the entry before it, from the
\* root for the first.
PathSpells(w) ==
    /\ Len(unminimized_path_) <= Len(w)
    /\ \A i \in 1..Len(unminimized_path_) :
          LET from == IF i = 1 THEN root_vertex_ ELSE unminimized_path_[i - 1].vertex_
          IN  /\ unminimized_path_[i].edge_from_parent_ = w[i]
              /\ w[i] \in DOMAIN heap[from].edges_
              /\ heap[from].edges_[w[i]] = unminimized_path_[i].vertex_

\* C18: between insert calls, for any input sequence, the unminimized path
\* mirrors prev_word_: as many entries as prev_word_ has bytes, the i-th entry
\* labelled with its i-th byte, and the labels lead from the root through the
\* path's vertices in order; when add_suffix starts, minimize_until has left
\* exactly the vertices of the prefix shared with the new word.
C18_PathMirrorsPrevWord ==
    /\ pc = "from_dictionary" =>
          PathSpells(prev_word_) /\ Len(unminimized_path_) = Len(prev_word_)
    /\ pc = "minimize_until" /\ ret = "add_suffix" =>
          PathSpells(prev_word_) /\ Len(unminimized_path_) > until
    /\ pc = "add_suffix" =>
          /\ PathSpells(word)
          /\ Len(suffix) = Len(word) - until =>
                /\ Len(unminimized_path_) = until
                /\ PathSpells(prev_word_)

C18_Witness ==
    /\ pc = "add_suffix"
    /\ Len(words) = 3
    /\ ~StrictlyAscending(words)
    /\ until = 1
    /\ Len(unminimized_path_) = 1
    /\ suffix # <<>>
    /\ Len(prev_word_) = 2


\* C19: for any input sequence, sorted or not, the automaton has no false
\* positives: after the build, and between any two inserts, every string the
\* lookup accepts is one of the words passed to insert so far.
C19_NoFalsePositiveAnyOrder ==
    (pc \in {"from_dictionary", "done"}) =>
        {s \in Candidates : contains(s)} \subseteq Dictionary

\* An out-of-order build that lost a word and still accepts another.
C19_Witness ==
    /\ pc = "done"
    /\ ~StrictlyAscending(words)
    /\ \E w \in Dictionary : ~contains(w)
    /\ \E w \in Dictionary : contains(w)
    /\ \E v \in minimized_vertices_ : v \notin Reachable


\* What is left of S after repeatedly removing the vertices with no
\* transition into S: the vertices on, or leading to, a cycle within S.
RECURSIVE Peel(_)
Peel(S) ==
    LET sinks == {v \in S : Targets(v) \cap S = {}}
    IN  IF sinks = {} THEN S ELSE Peel(S \ sinks)

\* C20: in every reachable state of construction, for any input sequence, the
\* transition graph over the root, the path vertices and the registry
\* vertices is acyclic: no vertex reaches itself through one or more
\* transitions.
C20_Acyclic == Peel(Owned) = {}

\* Mid-build on out-of-order input, with a vertex shared by two parents.
C20_Witness ==
    /\ pc = "add_suffix"
    /\ unminimized_path_ # <<>>
    /\ ~StrictlyAscending(words)
    /\ \E u, v \in Owned : u # v /\ Targets(u) \cap Targets(v) # {}
    /\ \E v \in minimized_vertices_ : Targets(v) # {}

=============================================================================
